---- MODULE Spec2Model ----
(***************************************************************************)
(* Model of dev-support/ranger-docker/scripts/create-ranger-services.py:   *)
(* the script walks the list `services`, asks the Ranger admin server      *)
(* whether each service exists (service_not_exists -> get_service) and     *)
(* creates the ones that do not (create_service), printing one line per    *)
(* creation or per caught exception.  The Ranger server and the client     *)
(* library are the environment: every remote call draws its outcome from   *)
(* the outcomes the library can produce.                                   *)
(***************************************************************************)
EXTENDS Integers, Sequences, FiniteSets, TLC

\* ------------------------------------------------------------------ bounds
\* number of remote calls that may raise in one behaviour
MaxFaults == 2
\* number of services already on the server at start, in the faulty runs
MaxPreRegistered == 1
\* number of times the script is run against the same server, when re-run
NumRuns == 2
\* number of remote calls that may raise over the re-runs together
MaxRerunFaults == 1

\* ------------------------------------------------------- service catalog
hdfs  == [name |-> "dev_hdfs",  type |-> "hdfs"]
hive  == [name |-> "dev_hive",  type |-> "hive"]
kafka == [name |-> "dev_kafka", type |-> "kafka"]
knox  == [name |-> "dev_knox",  type |-> "knox"]
yarn  == [name |-> "dev_yarn",  type |-> "yarn"]
hbase == [name |-> "dev_hbase", type |-> "hbase"]
kms   == [name |-> "dev_kms",   type |-> "kms"]
trino == [name |-> "dev_trino", type |-> "trino"]

\* variant: list built in the order the descriptors are declared
services_declared == <<hdfs, hive, kafka, knox, yarn, hbase, kms, trino>>

services == <<hdfs, yarn, hive, hbase, kafka, knox, kms, trino>>

Names == {services[k].name : k \in 1..Len(services)}

\* ------------------------------------------------------ python exceptions
\* JSONDecodeError is a ValueError, which is an Exception; the client's own
\* RangerServiceException (and transport errors) are Exceptions too.
IsInstance(exc, cls) ==
    \/ exc = cls
    \/ exc = "JSONDecodeError" /\ cls \in {"ValueError", "Exception"}
    \/ exc = "RangerServiceException" /\ cls = "Exception"

\* what ranger_client.get_service(name) can do against server state reg:
\* return the service, return None (not found), or raise
get_service(reg, name, canRaise) ==
    {[raised |-> "no", svc |-> IF name \in reg THEN name ELSE "None"]}
    \cup (IF canRaise
          THEN {[raised |-> "JSONDecodeError", svc |-> "None"],
                [raised |-> "RangerServiceException", svc |-> "None"]}
          ELSE {})

\* what ranger_client.create_service(service) can do: return, or raise
create_service(canRaise) ==
    {"no"} \cup (IF canRaise THEN {"JSONDecodeError", "RangerServiceException"}
                 ELSE {})

\* variant: return values of line 13 exchanged
service_not_exists_inverted(resp) ==
    IF resp.raised # "no"
    THEN IF resp.raised = "JSONDecodeError"
         THEN [raised |-> "no", ret |-> 1]
         ELSE [raised |-> resp.raised, ret |-> 0]
    ELSE [raised |-> "no", ret |-> IF resp.svc # "None" THEN 1 ELSE 0]

\* variant: no except clause, JSONDecodeError leaves the function
service_not_exists_propagates(resp) ==
    IF resp.raised # "no"
    THEN [raised |-> resp.raised, ret |-> 0]
    ELSE [raised |-> "no", ret |-> IF resp.svc # "None" THEN 0 ELSE 1]

\* variant: `except Exception` instead of `except JSONDecodeError`
service_not_exists_swallow(resp) ==
    IF resp.raised # "no"
    THEN [raised |-> "no", ret |-> 1]
    ELSE [raised |-> "no", ret |-> IF resp.svc # "None" THEN 0 ELSE 1]

\* variant: a service is reported missing whatever the server answers
service_not_exists_always(resp) ==
    IF resp.raised # "no"
    THEN IF resp.raised = "JSONDecodeError"
         THEN [raised |-> "no", ret |-> 1]
         ELSE [raised |-> resp.raised, ret |-> 0]
    ELSE [raised |-> "no", ret |-> 1]

\* service_not_exists(service), applied to the outcome of its get_service
\* call: [raised |-> exception that leaves the function, ret |-> 0 or 1]
service_not_exists(resp) ==
    IF resp.raised # "no"
    THEN IF IsInstance(resp.raised, "JSONDecodeError")
         THEN [raised |-> "no", ret |-> 1]
         ELSE [raised |-> resp.raised, ret |-> 0]
    ELSE [raised |-> "no", ret |-> IF resp.svc # "None" THEN 0 ELSE 1]

\* truth value of a python int in `if`
Truthy(n) == n # 0

\* variant: the loop only catches ValueError
LoopCatches_narrow(exc) ==
    exc = "JSONDecodeError"

\* the loop's `except Exception as e`
LoopCatches(exc) == IsInstance(exc, "Exception")

\* --------------------------------------------------------------- state
VARIABLES
    registered,  \* names the server holds
    atStart,     \* names the server held when the current run started
    run,         \* which run of the script this is
    i,           \* position of the for loop in services
    pc,          \* "idle" (not started), "check" (line 64), "create" (line 65),
                 \* "exit", "traceback"
    calls,       \* remote calls issued so far, with their outcome
    stdout,      \* lines printed so far
    budget,      \* remote calls that may still raise
    runs         \* how many times the operator runs the script

vars == <<registered, atStart, run, i, pc, calls, stdout, budget, runs>>

Call(op, name, result) == [run |-> run, op |-> op, name |-> name, result |-> result]

\* " <name> service created!"
CreatedLine(name) == [run |-> run, text |-> "created", name |-> name, op |-> "-", exc |-> "-"]

\* "An exception occured: <e>", e being the exception raised by call op
ExceptionLine(name, op, exc) ==
    [run |-> run, text |-> "exception", name |-> name, op |-> op, exc |-> exc]

Servers == {S \in SUBSET Names : Cardinality(S) <= MaxPreRegistered}

Start(servers, faults, n) ==
    /\ registered \in servers
    /\ atStart = registered
    /\ run = 0
    /\ i = 1
    /\ pc = "idle"
    /\ calls = <<>>
    /\ stdout = <<>>
    /\ budget = faults
    /\ runs = n

\* one run, some remote calls may raise
Init == Start(Servers, MaxFaults, 1)

\* one run on any server, no remote call raises
InitNoFault == Start(SUBSET Names, 0, 1)

\* the script is run again on the server the previous run left
InitRerun == Start(Servers, MaxRerunFaults, NumRuns)

\* the for statement takes the next element, or the script ends
NextIteration ==
    IF i < Len(services)
    THEN i' = i + 1 /\ pc' = "check"
    ELSE i' = i /\ pc' = "exit"

\* variant: `pass` in the except clause
Except_silent(name, op, exc) ==
    stdout' = stdout /\ NextIteration

\* variant: `break` after the print of the except clause
Except_break(name, op, exc) ==
    /\ stdout' = Append(stdout, ExceptionLine(name, op, exc))
    /\ i' = i /\ pc' = "exit"

\* an exception reaches the try statement of the loop body
Except(name, op, exc) ==
    IF LoopCatches(exc)
    THEN stdout' = Append(stdout, ExceptionLine(name, op, exc)) /\ NextIteration
    ELSE stdout' = stdout /\ i' = i /\ pc' = "traceback"

\* line 64: if service_not_exists(service)
ServiceNotExists ==
    /\ pc = "check"
    /\ \E resp \in get_service(registered, services[i].name, budget > 0) :
         LET r == service_not_exists(resp)
             result == IF resp.raised # "no" THEN resp.raised
                       ELSE IF resp.svc = "None" THEN "None" ELSE "svc"
         IN /\ calls' = Append(calls, Call("get_service", services[i].name, result))
            /\ budget' = IF resp.raised # "no" THEN budget - 1 ELSE budget
            /\ IF r.raised # "no"
               THEN Except(services[i].name, "get_service", r.raised)
               ELSE /\ stdout' = stdout
                    /\ IF Truthy(r.ret)
                       THEN i' = i /\ pc' = "create"
                       ELSE NextIteration
    /\ UNCHANGED <<registered, atStart, run, runs>>

\* variant: a failed creation is tried again
CreateService_retry ==
    /\ pc = "create"
    /\ \E exc \in create_service(budget > 0) :
         /\ calls' = Append(calls, Call("create_service", services[i].name,
                                        IF exc = "no" THEN "ok" ELSE exc))
         /\ IF exc = "no"
            THEN /\ registered' = registered \cup {services[i].name}
                 /\ budget' = budget
                 /\ stdout' = Append(stdout, CreatedLine(services[i].name))
                 /\ NextIteration
            ELSE /\ registered' = registered
                 /\ budget' = budget - 1
                 /\ stdout' = Append(stdout, ExceptionLine(services[i].name, "create_service", exc))
                 /\ i' = i /\ pc' = "create"
    /\ UNCHANGED <<atStart, run, runs>>

\* lines 65-66: ranger_client.create_service(service); print(...)
CreateService ==
    /\ pc = "create"
    /\ \E exc \in create_service(budget > 0) :
         /\ calls' = Append(calls, Call("create_service", services[i].name,
                                        IF exc = "no" THEN "ok" ELSE exc))
         /\ IF exc = "no"
            THEN /\ registered' = registered \cup {services[i].name}
                 /\ budget' = budget
                 /\ stdout' = Append(stdout, CreatedLine(services[i].name))
                 /\ NextIteration
            ELSE /\ registered' = registered
                 /\ budget' = budget - 1
                 /\ Except(services[i].name, "create_service", exc)
    /\ UNCHANGED <<atStart, run, runs>>

\* the operator runs the script (python create-ranger-services.py)
RunScript ==
    /\ pc \in {"idle", "exit"}
    /\ run < runs
    /\ run' = run + 1
    /\ atStart' = registered
    /\ i' = 1
    /\ pc' = "check"
    /\ UNCHANGED <<registered, calls, stdout, budget, runs>>

Script == ServiceNotExists \/ CreateService

Next == RunScript \/ ServiceNotExists \/ CreateService

Spec == Init /\ [][Next]_vars

SpecNoFault == InitNoFault /\ [][Next]_vars

SpecRerun == InitRerun /\ [][Next]_vars

\* the interpreter keeps executing a started script until it ends
LiveSpec == Init /\ [][Next]_vars /\ WF_vars(Script)

\* ------------------------------------------------------------ properties
IsGet(c)    == c.op = "get_service"
IsCreate(c) == c.op = "create_service"
Raised(c)   == c.result \in {"JSONDecodeError", "RangerServiceException"}
SameItem(c, d) == c.run = d.run /\ c.name = d.name

\* indices of the calls / lines that belong to descriptor name in run r
GetsOf(r, name)    == {k \in DOMAIN calls : IsGet(calls[k]) /\ calls[k].run = r /\ calls[k].name = name}
CreatesOf(r, name) == {k \in DOMAIN calls : IsCreate(calls[k]) /\ calls[k].run = r /\ calls[k].name = name}
LinesOf(r, name)   == {k \in DOMAIN stdout : stdout[k].run = r /\ stdout[k].name = name}
CreatedLinesOf(r, name)   == {k \in LinesOf(r, name) : stdout[k].text = "created"}
ExceptionLinesOf(r, name) == {k \in LinesOf(r, name) : stdout[k].text = "exception"}

RunCalls(r)   == SelectSeq(calls, LAMBDA c : c.run = r)
RunCreates(r) == SelectSeq(calls, LAMBDA c : c.run = r /\ IsCreate(c))
RunLines(r)   == SelectSeq(stdout, LAMBDA l : l.run = r)
RunFinished(r) == r < run \/ (r = run /\ pc = "exit")
Position(name) == CHOOSE k \in 1..Len(services) : services[k].name = name

\* C1: a descriptor whose lookup returned a matching entry never has
\* create_service called for it in that run, whatever happens to the others.
C1_PresentNeverCreated ==
    \A k \in DOMAIN calls :
        (IsGet(calls[k]) /\ calls[k].result = "svc")
            => CreatesOf(calls[k].run, calls[k].name) = {}

C1_Witness ==
    /\ pc = "exit"
    /\ \E k \in DOMAIN calls : IsGet(calls[k]) /\ calls[k].result = "svc"
    /\ \E k \in DOMAIN calls : IsCreate(calls[k]) /\ calls[k].result = "ok"
    /\ \E k \in DOMAIN calls : Raised(calls[k])

\* C2: a lookup that raises JSONDecodeError is followed by create_service
\* for the same descriptor, prints no exception line for the lookup, and a
\* successful creation prints the "created" line.
C2_ParseFailureMeansAbsent ==
    \A k \in DOMAIN calls :
        (IsGet(calls[k]) /\ calls[k].result = "JSONDecodeError") =>
            /\ \A l \in ExceptionLinesOf(calls[k].run, calls[k].name) :
                   stdout[l].op # "get_service"
            /\ IF k = Len(calls)
               THEN pc = "create" /\ run = calls[k].run
                    /\ services[i].name = calls[k].name
               ELSE /\ IsCreate(calls[k+1]) /\ SameItem(calls[k+1], calls[k])
                    /\ calls[k+1].result = "ok" =>
                           Cardinality(CreatedLinesOf(calls[k].run, calls[k].name)) = 1

C2_Witness ==
    \E k \in DOMAIN calls :
        /\ IsGet(calls[k]) /\ calls[k].result = "JSONDecodeError"
        /\ calls[k].name \in atStart
        /\ k < Len(calls) /\ IsCreate(calls[k+1]) /\ calls[k+1].result = "ok"
        /\ CreatedLinesOf(calls[k].run, calls[k].name) # {}

\* C3: whatever calls fail, no failure leaves the loop, and a run that has
\* ended has issued the lookup of every one of the eight descriptors.
C3_FailuresContained ==
    /\ pc # "traceback"
    /\ \A r \in 1..run : RunFinished(r) =>
           \A name \in Names : GetsOf(r, name) # {}
    /\ \A k \in DOMAIN calls : Raised(calls[k]) /\ k < Len(calls) =>
           \/ calls[k+1].run = calls[k].run + 1
           \/ /\ calls[k+1].run = calls[k].run
              /\ Position(calls[k+1].name) >= Position(calls[k].name)

C3_Witness ==
    /\ pc = "exit" /\ run = 1
    /\ \E k \in DOMAIN calls :
           /\ IsGet(calls[k]) /\ calls[k].result = "RangerServiceException"
           /\ calls[k].name = "dev_hdfs"
    /\ \E k \in DOMAIN calls :
           /\ IsCreate(calls[k]) /\ Raised(calls[k])
           /\ calls[k].name = "dev_kms"
    /\ GetsOf(1, "dev_trino") # {}
C5_CreatesExactlyTheMissing ==
    pc = "exit" =>
        /\ Len(RunCreates(run)) = Len(services) - Cardinality(atStart)
        /\ \A name \in Names :
               Cardinality(CreatesOf(run, name)) = IF name \in atStart THEN 0 ELSE 1
        /\ Len(RunLines(run)) = Len(services) - Cardinality(atStart)
        /\ \A k \in DOMAIN stdout : stdout[k].text = "created"
        /\ \A name \in Names :
               Cardinality(CreatedLinesOf(run, name)) = IF name \in atStart THEN 0 ELSE 1

C5_Witness ==
    /\ pc = "exit" /\ run = 1
    /\ atStart = {"dev_hdfs", "dev_kafka"}
    /\ Len(RunCreates(1)) = 6
    /\ Len(stdout) = 6

CodeOrder == <<"dev_hdfs", "dev_yarn", "dev_hive", "dev_hbase",
               "dev_kafka", "dev_knox", "dev_kms", "dev_trino">>

SpecOrder == <<"dev_hdfs", "dev_hive", "dev_kafka", "dev_knox",
               "dev_yarn", "dev_hbase", "dev_kms", "dev_trino">>

PositionIn(order, name) == CHOOSE k \in DOMAIN order : order[k] = name

\* the registration attempts follow the sequence order
FollowsOrder(order) ==
    /\ \A r \in 1..run :
           (RunFinished(r) /\ (\A k \in DOMAIN calls : calls[k].run = r =>
                                   calls[k].result \in {"None", "ok"}))
               => /\ Len(RunCreates(r)) = Len(order)
                  /\ \A k \in DOMAIN order : RunCreates(r)[k].name = order[k]
    /\ \A k, j \in DOMAIN calls :
           (k < j /\ calls[k].run = calls[j].run /\ IsGet(calls[j]))
               => PositionIn(order, calls[k].name) < PositionIn(order, calls[j].name)

\* C6 as stated: the catalog is dev_hdfs, dev_hive, dev_kafka, dev_knox,
\* dev_yarn, dev_hbase, dev_kms, dev_trino and attempts follow that order.
C6_AttemptsFollowSpecOrder == FollowsOrder(SpecOrder)

\* C6 amended: the catalog is dev_hdfs, dev_yarn, dev_hive, dev_hbase,
\* dev_kafka, dev_knox, dev_kms, dev_trino; on an empty server the eight
\* creation calls are issued in exactly this sequence, and in every run the
\* calls of an earlier entry are issued before the lookup of a later one.
C6_AttemptsFollowCodeOrder == FollowsOrder(CodeOrder)

C6_Witness ==
    /\ pc = "exit" /\ run = 1 /\ atStart = {}
    /\ Len(RunCreates(1)) = 8
    /\ \A k \in DOMAIN calls : ~Raised(calls[k])

\* the run that has just ended started on an empty server, the creation of
\* dev_knox raised, and no other remote call of the run raised
KnoxScenario ==
    /\ pc = "exit" /\ atStart = {}
    /\ \E k \in CreatesOf(run, "dev_knox") : Raised(calls[k])
    /\ \A k \in DOMAIN calls :
           (calls[k].run = run /\ Raised(calls[k]))
               => IsCreate(calls[k]) /\ calls[k].name = "dev_knox"

KnoxOutput ==
    /\ Cardinality({k \in DOMAIN stdout : stdout[k].run = run /\ stdout[k].text = "exception"}) = 1
    /\ Cardinality(ExceptionLinesOf(run, "dev_knox")) = 1
    /\ \A l \in ExceptionLinesOf(run, "dev_knox") : stdout[l].op = "create_service"
    /\ CreatedLinesOf(run, "dev_knox") = {}

CreatedAfterKnox(name) ==
    \E k \in CreatesOf(run, name) :
        /\ calls[k].result = "ok"
        /\ \A j \in CreatesOf(run, "dev_knox") : j < k

CreatedBeforeKnox(name) ==
    \E k \in CreatesOf(run, name) :
        /\ calls[k].result = "ok"
        /\ \A j \in CreatesOf(run, "dev_knox") : k < j

\* C7 as stated: when only the creation of dev_knox fails on an empty server,
\* one exception line (knox) is printed, no "created" line for knox, and
\* dev_yarn, dev_kms and dev_trino are created after the knox failure.
C7_YarnKmsTrinoAfterKnox ==
    KnoxScenario =>
        /\ KnoxOutput
        /\ \A name \in {"dev_yarn", "dev_kms", "dev_trino"} : CreatedAfterKnox(name)

\* C7 amended: in that scenario one exception line (knox) is printed, no
\* "created" line for knox, the services after dev_knox in the list, dev_kms
\* and dev_trino, are created after the knox failure, and dev_yarn (like
\* dev_hdfs, dev_hive, dev_hbase, dev_kafka) was created before it.
C7_KmsTrinoAfterKnox ==
    KnoxScenario =>
        /\ KnoxOutput
        /\ \A name \in {"dev_kms", "dev_trino"} : CreatedAfterKnox(name)
        /\ \A name \in {"dev_hdfs", "dev_yarn", "dev_hive", "dev_hbase", "dev_kafka"} :
               CreatedBeforeKnox(name)

C7_Witness ==
    /\ KnoxScenario /\ run = 1
    /\ Len(RunCreates(1)) = 8
    /\ Len(RunLines(1)) = 8

\* C8: per descriptor and run, a "created" line is printed exactly when
\* create_service was called and returned; an exception line exactly when
\* the lookup or the creation raised something other than a parse failure
\* of the lookup; a descriptor found present prints nothing; and no
\* descriptor prints more than one line.
C8_OneLinePerOutcome ==
    LET printing == SelectSeq(calls, LAMBDA c :
                        IsCreate(c) \/ c.result = "RangerServiceException")
        LineFor(c) == [run |-> c.run, name |-> c.name,
                       text |-> IF c.result = "ok" THEN "created" ELSE "exception",
                       op |-> IF c.result = "ok" THEN "-" ELSE c.op,
                       exc |-> IF c.result = "ok" THEN "-" ELSE c.result]
    IN /\ Len(stdout) = Len(printing)
       /\ \A k \in DOMAIN stdout : stdout[k] = LineFor(printing[k])
       /\ \A k \in DOMAIN calls : calls[k].result = "svc" =>
              \A l \in DOMAIN stdout : ~SameItem(stdout[l], calls[k])
       /\ \A k, l \in DOMAIN stdout : SameItem(stdout[k], stdout[l]) => k = l

C8_Witness ==
    /\ pc = "exit"
    /\ \E k \in DOMAIN calls : IsGet(calls[k]) /\ calls[k].result = "JSONDecodeError"
          /\ k < Len(calls) /\ calls[k+1].result = "JSONDecodeError"
          /\ Cardinality(ExceptionLinesOf(calls[k].run, calls[k].name)) = 1
    /\ \E k \in DOMAIN stdout : stdout[k].text = "created"
    /\ \E k \in DOMAIN calls : calls[k].result = "svc"

\* C9: a lookup that raises anything but a parse failure leaves the
\* existence check, create_service is not called for that descriptor, one
\* exception line is printed for it, and the loop goes on to the next
\* descriptor.
C9_LookupFailureSkipsCreate ==
    \A k \in DOMAIN calls :
        (IsGet(calls[k]) /\ calls[k].result = "RangerServiceException") =>
            /\ CreatesOf(calls[k].run, calls[k].name) = {}
            /\ Cardinality(LinesOf(calls[k].run, calls[k].name)) = 1
            /\ \A l \in LinesOf(calls[k].run, calls[k].name) :
                   stdout[l].text = "exception" /\ stdout[l].op = "get_service"
            /\ IF k < Len(calls)
               THEN /\ IsGet(calls[k+1])
                    /\ \/ /\ calls[k+1].run = calls[k].run
                          /\ Position(calls[k+1].name) = Position(calls[k].name) + 1
                       \/ /\ calls[k+1].run = calls[k].run + 1
                          /\ Position(calls[k].name) = Len(services)
               ELSE \/ pc = "exit" /\ Position(calls[k].name) = Len(services)
                    \/ pc = "check" /\ run = calls[k].run
                         /\ i = Position(calls[k].name) + 1
                    \/ pc = "check" /\ run = calls[k].run + 1 /\ i = 1

C9_Witness ==
    \E k \in DOMAIN calls :
        /\ IsGet(calls[k]) /\ calls[k].result = "RangerServiceException"
        /\ calls[k].name = "dev_hive"
        /\ k < Len(calls) /\ calls[k+1].name = "dev_hbase"
        /\ pc = "exit"

\* no call is repeated: per run and name at most one lookup and one creation
\* call, a creation call directly follows the lookup of the same descriptor,
\* and a finished run has issued exactly one lookup per name
NoRetry ==
    /\ Cardinality(Names) = Len(services)
    /\ Len(services) = 8
    /\ \A r \in 1..run : \A name \in Names :
           /\ Cardinality(GetsOf(r, name)) <= 1
           /\ Cardinality(CreatesOf(r, name)) <= 1
           /\ RunFinished(r) => Cardinality(GetsOf(r, name)) = 1
    /\ \A k \in DOMAIN calls : IsCreate(calls[k]) =>
           /\ k > 1
           /\ IsGet(calls[k-1]) /\ SameItem(calls[k-1], calls[k])
           /\ calls[k-1].result \in {"None", "JSONDecodeError"}

\* C10: every run ends, whatever the remote calls do, having issued exactly
\* one lookup and at most one creation call per catalog name, a creation
\* only after the lookup of the same iteration, and no call twice.
C10_TerminatesWithoutRetry ==
    /\ (pc \in {"check", "create"}) ~> (pc = "exit")
    /\ []NoRetry

C10_Witness ==
    /\ pc = "exit" /\ run = 1
    /\ budget = 0
    /\ \E k \in DOMAIN calls : IsCreate(calls[k]) /\ Raised(calls[k])
    /\ \E k \in DOMAIN calls : IsGet(calls[k]) /\ Raised(calls[k])
====
